---- MODULE Spec2Model ----
(***************************************************************************)
(* Model of src/appendable_arrays.c: an appendable int array (struct Array *)
(* with data / capacity / length) living on a malloc heap.                 *)
(*                                                                         *)
(* The heap is modelled explicitly (blocks with a live flag, a slot count  *)
(* and slot contents) so that out-of-bounds and use-after-free accesses    *)
(* are visible.  Undefined behaviour (an access outside a live block) is a *)
(* nondeterministic choice between a crash and silent continuation; a read *)
(* of an indeterminate value yields any value.  assert() is modelled as    *)
(* enabled (no NDEBUG): a failed assertion aborts the process.             *)
(* Allocation of a non-zero size is assumed to succeed; int arithmetic     *)
(* never overflows inside the bounds explored here.                        *)
(***************************************************************************)
EXTENDS Integers, Sequences, FiniteSets

\* ---- bounds of the exploration ----
MaxInitCap == 2      \* newArray(c) is explored for c in 0..MaxInitCap
MaxLen     == 5      \* append is explored while length < MaxLen
MaxUnder   == 2      \* popBack is explored while length > -MaxUnder
NBlocks    == 2      \* heap addresses available to malloc

\* ---- modelling constants ----
NULL   == 0          \* the null pointer
Uninit == 0          \* content of a slot malloc has not initialised

\* The element values: two of the values main appends.  No operation inspects
\* a value, so two distinct ones show any misplaced or lost element.
Values   == {10, 20}
BlockIds == 1..NBlocks

VARIABLES
    data,            \* a->data: NULL or a block id
    capacity,        \* a->capacity
    length,          \* a->length
    heap,            \* the malloc heap: block id -> [live, size, mem]
    zeroAllocNull,   \* implementation-defined: does malloc(0) return NULL?
    status,          \* "running", "aborted" (assert failed), "crashed" (UB)
    last,            \* the last call: op, arguments, outcome, memory events
    initCap,         \* history: the argument of newArray
    onlyAppends,     \* history: no popBack / set has run since newArray
    hist             \* history: values appended while onlyAppends holds

vars == <<data, capacity, length, heap, zeroAllocNull, status, last,
          initCap, onlyAppends, hist>>

\* ---- heap helpers ----
FreeBlock == [live |-> FALSE, size |-> 0, mem |-> <<>>]

FreshBlock(n) == [live |-> TRUE, size |-> n, mem |-> [i \in 1..n |-> Uninit]]

\* Possible results of malloc(n slots) on heap h.
Malloc(h, n) ==
    IF n = 0 /\ zeroAllocNull
    THEN {NULL}
    ELSE {b \in BlockIds : ~h[b].live}

\* The heap after malloc returned b.
Allocate(h, b, n) ==
    IF b = NULL THEN h ELSE [h EXCEPT ![b] = FreshBlock(n)]

\* free(p): free(NULL) is a no-op.
Free(h, p) ==
    IF p = NULL THEN h ELSE [h EXCEPT ![p] = FreeBlock]

\* Is p[i] an access inside a live block?
Valid(h, p, i) ==
    /\ p # NULL
    /\ h[p].live
    /\ 0 <= i
    /\ i < h[p].size

\* memcpy(dst, src, n slots): slot k of src goes to slot k of dst.
Memcpy(h, dst, src, n) ==
    IF dst = NULL \/ src = NULL \/ n <= 0 THEN h
    ELSE [h EXCEPT ![dst].mem =
            [i \in 1..h[dst].size |->
                IF i <= n /\ i <= h[src].size THEN h[src].mem[i]
                ELSE h[dst].mem[i]]]

Ev(kind, blk, slot, ok) == [kind |-> kind, blk |-> blk, slot |-> slot, ok |-> ok]

\* The accesses memcpy makes: read src[0..n-1], write dst[0..n-1].
MemcpyEvents(h, dst, src, n) ==
    IF n <= 0 THEN <<>>
    ELSE [k \in 1..(2 * n) |->
            IF k <= n
            THEN Ev("read", src, k - 1, Valid(h, src, k - 1))
            ELSE Ev("write", dst, k - n - 1, Valid(h, dst, k - n - 1))]

Call(op, idx, value, result, ret, events) ==
    [op |-> op, idx |-> idx, value |-> value, result |-> result,
     ret |-> ret, events |-> events]

\* ---- newArray ----
newArray(c) ==
    /\ zeroAllocNull \in BOOLEAN
    /\ \E b \in Malloc([x \in BlockIds |-> FreeBlock], c) :
          /\ data = b
          /\ heap = Allocate([x \in BlockIds |-> FreeBlock], b, c)
    /\ capacity = c
    /\ length = 0
    /\ status = "running"
    /\ last = Call("newArray", 0, 0, "ok", 0, <<>>)
    /\ initCap = c
    /\ onlyAppends = TRUE
    /\ hist = <<>>

Init == \E c \in 0..MaxInitCap : newArray(c)

\* The indexes set / get are called with on an array of length len: every
\* index in range, and -1, len and len + 1 out of range.
IdxRange(len) == {0 - 1, len, len + 1} \cup (0..(len - 1))

\* ---- the bounds check of set / get ----
InRangeOffByOne(idx, len) == idx <= len /\ idx >= 0

InRange(idx, len) == idx < len /\ idx >= 0

\* What a read of p[idx] can yield: the stored value, or any value when the
\* slot is indeterminate or outside a live block.
ReadResults(h, p, idx) ==
    IF Valid(h, p, idx) /\ h[p].mem[idx + 1] # Uninit
    THEN {h[p].mem[idx + 1]}
    ELSE Values

GetResults(idx) == ReadResults(heap, data, idx)

\* ---- set ----
set(idx, value) ==
    /\ status = "running"
    /\ IF ~InRange(idx, length)
       THEN /\ status' = "aborted"
            /\ last' = Call("set", idx, value, "OutOfRange", 0, <<>>)
            /\ UNCHANGED <<data, capacity, length, heap, zeroAllocNull,
                           initCap, onlyAppends, hist>>
       ELSE IF Valid(heap, data, idx)
       THEN /\ heap' = [heap EXCEPT ![data].mem[idx + 1] = value]
            /\ last' = Call("set", idx, value, "ok", 0,
                            <<Ev("write", data, idx, TRUE)>>)
            /\ onlyAppends' = FALSE
            /\ hist' = <<>>
            /\ UNCHANGED <<data, capacity, length, zeroAllocNull, status,
                           initCap>>
       ELSE \E crash \in BOOLEAN :
            /\ status' = IF crash THEN "crashed" ELSE "running"
            /\ last' = Call("set", idx, value,
                            IF crash THEN "crash" ELSE "ok", 0,
                            <<Ev("write", data, idx, FALSE)>>)
            /\ onlyAppends' = FALSE
            /\ hist' = <<>>
            /\ UNCHANGED <<data, capacity, length, heap, zeroAllocNull,
                           initCap>>

\* ---- get ----
get(idx) ==
    /\ status = "running"
    /\ IF ~InRange(idx, length)
       THEN /\ status' = "aborted"
            /\ last' = Call("get", idx, 0, "OutOfRange", 0, <<>>)
       ELSE \/ \E r \in GetResults(idx) :
                  /\ status' = status
                  /\ last' = Call("get", idx, 0, "ok", r,
                               <<Ev("read", data, idx, Valid(heap, data, idx))>>)
            \/ /\ ~Valid(heap, data, idx)
               /\ status' = "crashed"
               /\ last' = Call("get", idx, 0, "crash", 0,
                               <<Ev("read", data, idx, FALSE)>>)
    /\ UNCHANGED <<data, capacity, length, heap, zeroAllocNull,
                   initCap, onlyAppends, hist>>

\* ---- append ----
GrowCapacityByTwoSlots(c) == c + 2

GrowCapacity(c) == c * 2

append(value) ==
    /\ status = "running"
    /\ length < MaxLen
    /\ LET grow == (length = capacity)
       IN \E nb \in (IF grow THEN Malloc(heap, capacity * 2) ELSE {data}) :
          LET h1 == IF grow THEN Allocate(heap, nb, capacity * 2) ELSE heap
              h2 == IF grow THEN Memcpy(h1, nb, data, length) ELSE h1
              h3 == IF grow THEN Free(h2, data) ELSE h2
              c  == IF grow THEN GrowCapacity(capacity) ELSE capacity
              ok == Valid(h3, nb, length)
              evs == (IF grow
                      THEN <<Ev("malloc", nb, capacity * 2, TRUE)>>
                           \o MemcpyEvents(h1, nb, data, length)
                           \o <<Ev("free", data, 0, TRUE)>>
                      ELSE <<>>)
                     \o <<Ev("write", nb, length, ok)>>
          IN \E crash \in (IF ok THEN {FALSE} ELSE BOOLEAN) :
             /\ data' = nb
             /\ capacity' = c
             /\ heap' = IF ok THEN [h3 EXCEPT ![nb].mem[length + 1] = value]
                        ELSE h3
             /\ length' = IF crash THEN length ELSE length + 1
             /\ status' = IF crash THEN "crashed" ELSE "running"
             /\ last' = Call("append", 0, value,
                             IF crash THEN "crash" ELSE "ok", 0, evs)
             /\ hist' = IF onlyAppends /\ ~crash THEN hist \o <<value>>
                        ELSE hist
             /\ UNCHANGED <<zeroAllocNull, initCap, onlyAppends>>

\* ---- popBack ----
popBackShrink ==
    /\ status = "running"
    /\ length > 0 - MaxUnder
    /\ length' = length - 1
    /\ capacity' = IF length - 1 >= 0 /\ 2 * (length - 1) < capacity
                   THEN length - 1 ELSE capacity
    /\ last' = Call("popBack", 0, 0, "ok", 0, <<>>)
    /\ onlyAppends' = FALSE
    /\ hist' = <<>>
    /\ UNCHANGED <<data, heap, zeroAllocNull, status, initCap>>

popBack ==
    /\ status = "running"
    /\ length > 0 - MaxUnder
    /\ length' = length - 1
    /\ last' = Call("popBack", 0, 0, "ok", 0, <<>>)
    /\ onlyAppends' = FALSE
    /\ hist' = <<>>
    /\ UNCHANGED <<data, capacity, heap, zeroAllocNull, status, initCap>>

\* ---- popFront ----
popFrontRemoves ==
    /\ status = "running"
    /\ IF length > 0
       THEN /\ length' = length - 1
            /\ status' = status
       ELSE /\ length' = length
            /\ status' = "aborted"
    /\ last' = Call("popFront", 0, 0,
                    IF length > 0 THEN "ok" ELSE "OutOfRange", 0, <<>>)
    /\ UNCHANGED <<data, capacity, heap, zeroAllocNull,
                   initCap, onlyAppends, hist>>

popFront ==
    /\ status = "running"
    /\ last' = Call("popFront", 0, 0, "ok", 0, <<>>)
    /\ UNCHANGED <<data, capacity, length, heap, zeroAllocNull, status,
                   initCap, onlyAppends, hist>>

DoAppend == \E v \in Values : append(v)
DoSet    == \E i \in IdxRange(length), v \in Values : set(i, v)
DoGet    == \E i \in IdxRange(length) : get(i)

Next ==
    \/ DoAppend
    \/ DoSet
    \/ DoGet
    \/ popBack
    \/ popFront

Spec == Init /\ [][Next]_vars

\* ---- helpers of the properties ----
Max(x, y) == IF x >= y THEN x ELSE y

LiveBlocks == {b \in BlockIds : heap[b].live}

IsAccess(e) == e.kind \in {"read", "write"}

MallocCount(evs) == Cardinality({k \in DOMAIN evs : evs[k].kind = "malloc"})

\* C1: in every reachable state 0 <= length <= capacity.
C1_LengthWithinCapacity ==
    0 <= length /\ length <= capacity

\* C2: popBack on an array with length == 0 fails with Underflow and leaves
\* length, capacity and the stored elements unchanged.
C2_PopBackUnderflow ==
    [][(popBack /\ length = 0) =>
          /\ last'.result = "Underflow"
          /\ UNCHANGED <<length, capacity, data, heap>>]_vars

\* C3: after newArray(0) and one append(x): length == 1, capacity >= 1 and
\* get(0) == x; an append on a full array gets a block of max(1, 2 * capacity)
\* slots, so capacity strictly grows even from 0.
C3_ZeroCapacityBootstrap ==
    /\ []((initCap = 0 /\ onlyAppends /\ Len(hist) = 1) =>
             /\ length = 1
             /\ capacity >= 1
             /\ GetResults(0) = {hist[1]})
    /\ [][(DoAppend /\ length = capacity) =>
             /\ capacity' = Max(1, capacity * 2)
             /\ capacity' > capacity
             /\ data' # NULL
             /\ heap'[data'].size = capacity']_vars

\* C4: get(idx) and set(idx, v) fail with OutOfRange, before any slot is read
\* or written, whenever idx < 0 or idx >= length; they succeed only for
\* 0 <= idx < length, and get never touches a slot in [length, capacity).
C4_RangeChecks ==
    last.op \in {"get", "set"} =>
        /\ (last.idx < 0 \/ last.idx >= length) =>
              /\ last.result = "OutOfRange"
              /\ status = "aborted"
              /\ last.events = <<>>
        /\ last.result # "OutOfRange" =>
              /\ 0 <= last.idx
              /\ last.idx < length
        /\ \A k \in DOMAIN last.events :
              /\ last.events[k].slot = last.idx
              /\ ~(length <= last.events[k].slot
                     /\ last.events[k].slot < capacity)

C4_Witness ==
    /\ last.op = "get"
    /\ last.result = "OutOfRange"
    /\ last.idx = length
    /\ length >= 1
    /\ length < capacity

\* C5: after n appends of v_0 .. v_{n-1} on a fresh array of any capacity
\* c >= 0, length == n and get(i) == v_i; each append adds exactly 1 to
\* length and leaves the elements at [0, old length) as they were.
C5_AppendCorrectness ==
    /\ []((onlyAppends /\ status = "running") =>
             /\ length = Len(hist)
             /\ \A i \in 1..Len(hist) : GetResults(i - 1) = {hist[i]})
    /\ [][DoAppend =>
             /\ length' = length + 1
             /\ \A i \in 0..(length - 1) :
                   ReadResults(heap', data', i) = GetResults(i)]_vars

\* C6: append changes capacity only when length == capacity, and then to
\* exactly twice the old capacity (old capacity >= 1); with length < capacity
\* it allocates nothing and keeps capacity.  From newArray(2): capacity is 2
\* after the 1st and 2nd append, 4 after the 3rd and 4th, 8 after the 5th.
C6_GrowthPolicy ==
    /\ [][DoAppend =>
             /\ (capacity' # capacity =>
                    length = capacity /\ capacity' = 2 * capacity)
             /\ (length = capacity /\ capacity >= 1 =>
                    /\ capacity' = 2 * capacity
                    /\ MallocCount(last'.events) = 1)
             /\ (length < capacity =>
                    /\ capacity' = capacity
                    /\ data' = data
                    /\ MallocCount(last'.events) = 0)]_vars
    /\ []((initCap = 2 /\ onlyAppends) =>
             /\ (Len(hist) \in {1, 2} => capacity = 2)
             /\ (Len(hist) \in {3, 4} => capacity = 4)
             /\ (Len(hist) = 5 => capacity = 8))

C6_Witness ==
    /\ initCap = 2
    /\ onlyAppends
    /\ Len(hist) = 5
    /\ capacity = 8
    /\ last.op = "append"

\* C7: popBack on length n > 0 gives length n - 1 and leaves the elements,
\* capacity and the storage block alone; capacity never decreases.
C7_PopBackFrame ==
    [][/\ (popBack /\ length > 0) =>
             /\ length' = length - 1
             /\ capacity' = capacity
             /\ data' = data
             /\ heap' = heap
             /\ last'.events = <<>>
       /\ capacity' >= capacity]_vars

C7_Witness ==
    /\ last.op = "popBack"
    /\ length >= 1
    /\ capacity >= 4
    /\ status = "running"

\* C8: popFront is a no-op in every reachable state, the empty array
\* included: length, capacity and every element stay, and it never fails.
C8_PopFrontNoOp ==
    [][popFront =>
          /\ UNCHANGED <<length, capacity, data, heap, status>>
          /\ last'.result = "ok"
          /\ last'.events = <<>>]_vars

C8_Witness ==
    /\ last.op = "popFront"
    /\ length = 0
    /\ capacity >= 1
    /\ status = "running"

\* C9: a successful set(idx, v) with 0 <= idx < length makes get(idx) == v
\* and changes neither length, capacity nor any other element; a set that
\* fails with OutOfRange changes no state at all.
C9_SetFrame ==
    [][DoSet =>
          /\ last'.result = "OutOfRange" =>
                UNCHANGED <<length, capacity, data, heap>>
          /\ last'.result = "ok" =>
                /\ ReadResults(heap', data', last'.idx) = {last'.value}
                /\ UNCHANGED <<length, capacity>>
                /\ \A j \in (0..(length - 1)) \ {last'.idx} :
                      ReadResults(heap', data', j) = GetResults(j)]_vars

\* The state of the storage at the end of an operation.
StorageSafe ==
    /\ LiveBlocks = {data}
    /\ heap[data].size = capacity
    /\ \A k \in DOMAIN last.events :
          IsAccess(last.events[k]) =>
             /\ last.events[k].ok
             /\ last.events[k].slot >= 0
             /\ last.events[k].slot < heap[data].size
             /\ \A j \in 1..(k - 1) :
                   last.events[j].kind = "free" =>
                      last.events[j].blk # last.events[k].blk
    /\ (last.op = "append" /\ Len(last.events) > 0) =>
          /\ last.events[Len(last.events)].blk = data
          /\ last.events[Len(last.events)].slot < capacity

\* C10: at the end of every operation exactly one block is live, it is the
\* block a->data points to and it has capacity slots; every slot read or
\* written lies in [0, capacity) of a live block, and a block is not
\* accessed after it was freed.
C10_StorageSafety == [][Next => StorageSafe']_vars

====
